---- MODULE Spec2Model ----
(***************************************************************************)
(* Token-analysis pipeline of crypto-security-scanner.                     *)
(*                                                                         *)
(* Two pipeline variants exist in the source:                              *)
(*   - the hard-cutoff pipeline  (src/crypto-filter-script.py,             *)
(*     CryptoSecurityFilter.perform_comprehensive_analysis / filter_tokens)*)
(*   - the advisory pipeline     (src/project_crypto_security/             *)
(*     crypto_security.py, CryptoSecurityFilter.analyze_token)             *)
(* together with VolumeAnalyzer, RugCheckAPI, APIManager and the           *)
(* BlacklistManager they use.                                              *)
(*                                                                         *)
(* Python values are modelled as records [t, n, s, m]:                     *)
(*   t = "none"            None                                            *)
(*   t = "num",  n         the number n/10 (fixed point, tenths)           *)
(*   t = "str",  s         a string, as the sequence of its characters     *)
(*   t = "list"            a list (only its not being a mapping matters)   *)
(*   t = "dict", m         a dict, as a function from its keys             *)
(***************************************************************************)
EXTENDS Integers, Sequences, FiniteSets, TLC

VARIABLES
    blacklists,       \* BlacklistManager.blacklists: category -> set of strings
    blacklist_file,   \* the durable YAML file behind BlacklistManager
    apis,             \* APIManager.apis: the configured backend names
    last,             \* the most recent analyze_one call and its outcome
    pc,               \* "idle", or "filter" while filter_tokens is in its loop
    tokens_data,      \* filter_tokens: the input list
    idx,              \* filter_tokens: position of the loop (next token)
    verified_tokens,  \* filter_tokens: the output list built so far
    results,          \* history: what each loop iteration's analysis returned
    volume_data,      \* input of a direct VolumeAnalyzer.analyze_volume call
    vol_result,       \* its outcome, for both VolumeAnalyzer implementations
    store_call,       \* the most recent direct BlacklistManager call
    writers,          \* threads inside add / remove / clear: position, locals
    observed,         \* what loads of the file by another process returned
    versions,         \* history: the values BlacklistManager.blacklists had
    api_call,         \* APIManager.analyze_token: position, locals, calls made
    request           \* BaseAPIClient._make_request: position, attempts made

vars == <<blacklists, blacklist_file, apis, last, pc, tokens_data, idx,
          verified_tokens, results, volume_data, vol_result,
          store_call, writers, observed, versions, api_call, request>>

-----------------------------------------------------------------------------
(* Bounds *)

MaxBatch == 2       \* longest token list handed to filter_tokens

MaxRetries == 4     \* largest APIConfig.max_retries configured

-----------------------------------------------------------------------------
(* Python values *)

EmptyMap == [x \in {} |-> 0]

PyNone  == [t |-> "none", n |-> 0, s |-> <<>>, m |-> EmptyMap]
PyList  == [t |-> "list", n |-> 0, s |-> <<>>, m |-> EmptyMap]
Num(x)  == [t |-> "num",  n |-> x, s |-> <<>>, m |-> EmptyMap]
Str(x)  == [t |-> "str",  n |-> 0, s |-> x,    m |-> EmptyMap]
Dict(f) == [t |-> "dict", n |-> 0, s |-> <<>>, m |-> f]

\* dict.get(key, default)
Get(d, key, default) == IF key \in DOMAIN d THEN d[key] ELSE default

\* bool(v) for the values an address can be
Truthy(v) ==
    CASE v.t = "none" -> FALSE
      [] v.t = "num"  -> v.n # 0
      [] v.t = "str"  -> Len(v.s) > 0
      [] v.t = "list" -> FALSE
      [] v.t = "dict" -> DOMAIN v.m # {}

Chars == {"a", "A", "b", "B"}

\* the address strings drawn as inputs: empty, two spellings of one address,
\* and a second address of mixed case
Strings == {<<>>, <<"a">>, <<"A">>, <<"b", "A">>}

LowerChar(c) == CASE c = "A" -> "a" [] c = "B" -> "b" [] OTHER -> c
UpperChar(c) == CASE c = "a" -> "A" [] c = "b" -> "B" [] OTHER -> c

\* str.lower()
lower(str) == [i \in 1..Len(str) |-> LowerChar(str[i])]

\* str.upper()
upper(str) == [i \in 1..Len(str) |-> UpperChar(str[i])]

\* every string over Chars that differs from str in letter case only
CaseVariants(str) == {v \in [1..Len(str) -> Chars] : lower(v) = lower(str)}

-----------------------------------------------------------------------------
(* VolumeAnalyzer *)

VolumeKeys == {"total_volume", "1h_volume", "24h_volume",
               "volume_liquidity_ratio", "volume_spike_ratio"}

\* the default each check passes to volume_data.get
VolumeDefault(key) == IF key = "volume_spike_ratio" THEN Num(10) ELSE Num(0)

\* the checks list with the first comparison written >= instead of >
VolumeCheck_ge(key, v) ==
    CASE key = "total_volume"           -> v.n >= 10000
      [] key = "1h_volume"              -> v.n > 0
      [] key = "24h_volume"             -> v.n > 0
      [] key = "volume_liquidity_ratio" -> v.n > 1
      [] key = "volume_spike_ratio"     -> v.n < 20

\* one entry of the checks list, for a numeric operand
VolumeCheck(key, v) ==
    CASE key = "total_volume"           -> v.n > 10000
      [] key = "1h_volume"              -> v.n > 0
      [] key = "24h_volume"             -> v.n > 0
      [] key = "volume_liquidity_ratio" -> v.n > 1
      [] key = "volume_spike_ratio"     -> v.n < 20

\* VolumeAnalyzer.analyze_volume of the package: sum(checks) / len(checks),
\* 0.0 when building the list raises (no .get on the argument, or an operand
\* that does not compare with a number)
analyze_volume(vd) ==
    IF vd.t # "dict" THEN 0
    ELSE LET operand(key) == Get(vd.m, key, VolumeDefault(key))
         IN IF \E key \in VolumeKeys : operand(key).t # "num" THEN 0
            ELSE (Cardinality({key \in VolumeKeys :
                                 VolumeCheck(key, operand(key))}) * 10)
                   \div Cardinality(VolumeKeys)

Min(a, b) == IF a <= b THEN a ELSE b
Max(a, b) == IF a >= b THEN a ELSE b

\* VolumeAnalyzer.analyze_volume of the script: the same list, the quotient
\* clamped by max(0, min(1, legitimacy_score))
analyze_volume_script(vd) ==
    IF vd.t # "dict" THEN 0
    ELSE LET operand(key) == Get(vd.m, key, VolumeDefault(key))
         IN IF \E key \in VolumeKeys : operand(key).t # "num" THEN 0
            ELSE LET legitimacy_score ==
                         (Cardinality({key \in VolumeKeys :
                                         VolumeCheck(key, operand(key))}) * 10)
                           \div Cardinality(VolumeKeys)
                 IN Max(0, Min(10, legitimacy_score))

-----------------------------------------------------------------------------
(* BlacklistManager *)

Categories == {"tokens", "developers", "contracts", "domains"}

EmptyBlacklists == [c \in Categories |-> {}]

\* The durable file: absent, unparseable, or a YAML mapping from some of the
\* category keys to lists of strings (a list is read back through set(), so
\* only its elements are kept here).
MissingFile == [kind |-> "missing", data |-> EmptyMap]
CorruptFile == [kind |-> "corrupt", data |-> EmptyMap]
YamlFile(d) == [kind |-> "yaml", data |-> d]

\* a parseable YAML mapping in which the value of some category key is not a
\* list (a bare "tokens:" reads as null): set() of it raises; d holds the
\* categories that are lists
NotAListFile(d) == [kind |-> "notalist", data |-> d]

\* _load_blacklists indexing the mapping, data['tokens'], instead of
\* data.get('tokens', []): a missing key raises and the except returns all
\* four sets empty
load_blacklists_indexing(file) ==
    IF file.kind = "yaml" /\ Categories \subseteq DOMAIN file.data
    THEN [c \in Categories |-> file.data[c]]
    ELSE EmptyBlacklists

\* BlacklistManager._load_blacklists
load_blacklists(file) ==
    IF file.kind = "yaml"
    THEN [c \in Categories |-> Get(file.data, c, {})]
    ELSE EmptyBlacklists

\* BlacklistManager._save_blacklists: rewrites the whole file; an exception
\* while preparing or opening the file is logged and leaves it as it was
save_blacklists(bl, file, io) ==
    IF io = "ok" THEN YamlFile(bl) ELSE file

IOOutcomes == {"ok", "error"}

\* add_to_blacklist storing the address as given, without .lower()
add_to_blacklist_as_given(bl, file, blacklist_type, address, io) ==
    IF ~Truthy(address)
    THEN [blacklists |-> bl, file |-> file, raised |-> FALSE]
    ELSE IF blacklist_type \notin DOMAIN bl
    THEN [blacklists |-> bl, file |-> file, raised |-> FALSE]
    ELSE IF address.t # "str"
    THEN [blacklists |-> bl, file |-> file, raised |-> TRUE]
    ELSE LET added == [bl EXCEPT ![blacklist_type] = @ \cup {address.s}]
         IN [blacklists |-> added,
             file |-> save_blacklists(added, file, io),
             raised |-> FALSE]

\* BlacklistManager.add_to_blacklist; raised marks the AttributeError of
\* address.lower() on a value that is not a string
add_to_blacklist(bl, file, blacklist_type, address, io) ==
    IF ~Truthy(address)
    THEN [blacklists |-> bl, file |-> file, raised |-> FALSE]
    ELSE IF blacklist_type \notin DOMAIN bl
    THEN [blacklists |-> bl, file |-> file, raised |-> FALSE]
    ELSE IF address.t # "str"
    THEN [blacklists |-> bl, file |-> file, raised |-> TRUE]
    ELSE LET added == [bl EXCEPT ![blacklist_type] = @ \cup {lower(address.s)}]
         IN [blacklists |-> added,
             file |-> save_blacklists(added, file, io),
             raised |-> FALSE]

\* BlacklistManager.is_blacklisted, for a string address
is_blacklisted(bl, blacklist_type, address) ==
    IF blacklist_type \notin DOMAIN bl THEN FALSE
    ELSE lower(address) \in bl[blacklist_type]

-----------------------------------------------------------------------------
(* RugCheckAPI *)

ContractRisk == {"SAFE", "LOW_RISK", "MEDIUM_RISK", "HIGH_RISK", "DANGEROUS"}

\* what the lookup behind check_contract answers (mock_response in the source,
\* which stands for the API request): a verdict, a verdict naming a risk level
\* that ContractRisk does not have, or a request that fails
Verdict(risk, bundled, honeypot, verified) ==
    [fault |-> FALSE, risk_level |-> risk, is_honeypot |-> honeypot,
     is_verified |-> verified, is_bundled |-> bundled, potential_issues |-> <<>>]

RequestFault ==
    [fault |-> TRUE, risk_level |-> "", is_honeypot |-> FALSE,
     is_verified |-> FALSE, is_bundled |-> FALSE, potential_issues |-> <<>>]

Responses ==
    {Verdict(r, b, FALSE, TRUE) : r \in ContractRisk, b \in BOOLEAN}
      \cup {Verdict("LOW_RISK", FALSE, TRUE, FALSE),
            [Verdict("LOW_RISK", FALSE, FALSE, TRUE)
               EXCEPT !.potential_issues = <<"mintable">>],
            Verdict("CRITICAL", FALSE, FALSE, TRUE),
            RequestFault}

\* the dataclass ContractAnalysis with its defaults
ContractAnalysis(token_address) ==
    [token_address |-> token_address, risk_level |-> "HIGH_RISK",
     is_honeypot |-> FALSE, is_verified |-> FALSE, is_bundled |-> FALSE,
     volume_legitimacy_score |-> 0, potential_issues |-> <<>>]

\* the lookup raised inside check_contract's try block
LookupFaulted(response) ==
    response.fault \/ response.risk_level \notin ContractRisk

\* check_contract failing open: the except clause returns a LOW_RISK analysis
check_contract_fail_open(token_address, response) ==
    IF LookupFaulted(response)
    THEN [ContractAnalysis(token_address) EXCEPT !.risk_level = "LOW_RISK"]
    ELSE [token_address |-> token_address,
          risk_level |-> response.risk_level,
          is_honeypot |-> response.is_honeypot,
          is_verified |-> response.is_verified,
          is_bundled |-> response.is_bundled,
          volume_legitimacy_score |-> 0,
          potential_issues |-> response.potential_issues]

\* RugCheckAPI.check_contract
check_contract(token_address, response) ==
    IF LookupFaulted(response)
    THEN ContractAnalysis(token_address)
    ELSE [token_address |-> token_address,
          risk_level |-> response.risk_level,
          is_honeypot |-> response.is_honeypot,
          is_verified |-> response.is_verified,
          is_bundled |-> response.is_bundled,
          volume_legitimacy_score |-> 0,
          potential_issues |-> response.potential_issues]

-----------------------------------------------------------------------------
(* CryptoSecurityFilter of the script: the hard-cutoff pipeline.  The script
   constructs a BlacklistManager it does not import; it is taken to be the
   class of blacklist_manager.py, the only one of that name. *)

Event(op, score, address) == [op |-> op, score |-> score, address |-> address]

\* the five .get calls that build volume_data from the token
extract_volume_data(token) ==
    Dict([key \in VolumeKeys |->
            CASE key = "total_volume" -> Get(token, "volume", Num(0))
              [] key = "1h_volume" -> Get(token, "volume_1h", Num(0))
              [] key = "24h_volume" -> Get(token, "volume_24h", Num(0))
              [] key = "volume_liquidity_ratio" ->
                     Get(token, "volume_liquidity_ratio", Num(0))
              [] key = "volume_spike_ratio" ->
                     Get(token, "volume_spike", Num(10))])

\* the early return with its comparison inverted
suspicious_volume_inverted(volume_score) == volume_score > 5

\* the early return on the volume score: volume_score < 0.5
suspicious_volume(volume_score) == volume_score < 5

\* the blacklisting condition with DANGEROUS left out of the list
is_security_concern_high_only(contract_analysis) ==
    \/ contract_analysis.is_bundled
    \/ contract_analysis.risk_level \in {"HIGH_RISK"}

\* the condition of the blacklisting branch
is_security_concern(contract_analysis) ==
    \/ contract_analysis.is_bundled
    \/ contract_analysis.risk_level \in {"HIGH_RISK", "DANGEROUS"}

\* the enrichment taking the score from the ContractAnalysis field of the
\* same name, which nothing sets
enhance_analysis_score(token, volume_score, contract_analysis) ==
    [key \in DOMAIN token \cup {"volume_legitimacy_score", "contract_risk_level"} |->
        CASE key = "volume_legitimacy_score" ->
                 Num(contract_analysis.volume_legitimacy_score)
          [] key = "contract_risk_level" -> Str(<<contract_analysis.risk_level>>)
          [] OTHER -> token[key]]

\* {**token_data, 'volume_legitimacy_score': ..., 'contract_risk_level': ...}:
\* a new dict; a key written later replaces an equal key of token_data
enhance(token, volume_score, contract_analysis) ==
    [key \in DOMAIN token \cup {"volume_legitimacy_score", "contract_risk_level"} |->
        CASE key = "volume_legitimacy_score" -> Num(volume_score)
          [] key = "contract_risk_level" -> Str(<<contract_analysis.risk_level>>)
          [] OTHER -> token[key]]

\* a call that did not get as far as computing the score / making the lookup
NoScore == -1
NoAnalysis == ContractAnalysis(PyNone)

\* perform_comprehensive_analysis blacklisting the contract instead of the
\* developer: its second add goes to the contracts category
perform_comprehensive_analysis_contracts(token_data, response, bl, file, io) ==
    LET Outcome(result, b, f, ev, score, analysis) ==
            [result |-> result, token_data |-> token_data, raised |-> FALSE,
             blacklists |-> b, file |-> f, events |-> ev,
             volume_score |-> score, contract_analysis |-> analysis]
    IN IF token_data.t # "dict"
       THEN Outcome(PyNone, bl, file, <<>>, NoScore, NoAnalysis)
       ELSE
       LET token == token_data.m
           volume_score == analyze_volume_script(extract_volume_data(token))
           ev1 == <<Event("analyze_volume", volume_score, PyNone)>>
       IN IF suspicious_volume(volume_score)
          THEN Outcome(PyNone, bl, file, ev1, volume_score, NoAnalysis)
          ELSE IF "address" \notin DOMAIN token
          THEN Outcome(PyNone, bl, file, ev1, volume_score, NoAnalysis)
          ELSE
          LET address == token["address"]
              contract_analysis == check_contract(address, response)
              ev2 == Append(ev1, Event("check_contract", 0, address))
          IN IF is_security_concern(contract_analysis)
             THEN LET t == add_to_blacklist(bl, file, "tokens", address, io[1])
                      d == add_to_blacklist(t.blacklists, t.file, "contracts",
                               address, io[2])
                  IN IF t.raised
                     THEN Outcome(PyNone, t.blacklists, t.file, ev2,
                                  volume_score, contract_analysis)
                     ELSE Outcome(PyNone, d.blacklists, d.file, ev2,
                                  volume_score, contract_analysis)
             ELSE Outcome(Dict(enhance(token, volume_score, contract_analysis)),
                          bl, file, ev2, volume_score, contract_analysis)

\* perform_comprehensive_analysis rejecting and blacklisting a classification
\* flagged is_honeypot as well
perform_comprehensive_analysis_honeypot(token_data, response, bl, file, io) ==
    LET Outcome(result, b, f, ev, score, analysis) ==
            [result |-> result, token_data |-> token_data, raised |-> FALSE,
             blacklists |-> b, file |-> f, events |-> ev,
             volume_score |-> score, contract_analysis |-> analysis]
    IN IF token_data.t # "dict"
       THEN Outcome(PyNone, bl, file, <<>>, NoScore, NoAnalysis)
       ELSE
       LET token == token_data.m
           volume_score == analyze_volume_script(extract_volume_data(token))
           ev1 == <<Event("analyze_volume", volume_score, PyNone)>>
       IN IF suspicious_volume(volume_score)
          THEN Outcome(PyNone, bl, file, ev1, volume_score, NoAnalysis)
          ELSE IF "address" \notin DOMAIN token
          THEN Outcome(PyNone, bl, file, ev1, volume_score, NoAnalysis)
          ELSE
          LET address == token["address"]
              contract_analysis == check_contract(address, response)
              ev2 == Append(ev1, Event("check_contract", 0, address))
          IN IF is_security_concern(contract_analysis)
                  \/ contract_analysis.is_honeypot
             THEN LET t == add_to_blacklist(bl, file, "tokens", address, io[1])
                      d == add_to_blacklist(t.blacklists, t.file, "developers",
                               Get(token, "developer_address", Str(<<>>)), io[2])
                  IN IF t.raised
                     THEN Outcome(PyNone, t.blacklists, t.file, ev2,
                                  volume_score, contract_analysis)
                     ELSE Outcome(PyNone, d.blacklists, d.file, ev2,
                                  volume_score, contract_analysis)
             ELSE Outcome(Dict(enhance(token, volume_score, contract_analysis)),
                          bl, file, ev2, volume_score, contract_analysis)

\* CryptoSecurityFilter.perform_comprehensive_analysis.  response is what the
\* lookup answers if it is made, io the outcomes of the two possible saves.
\* The outcome carries the returned value, the argument object as the call
\* leaves it, the blacklist store and the collaborators called, in order.
perform_comprehensive_analysis(token_data, response, bl, file, io) ==
    LET Outcome(result, b, f, ev, score, analysis) ==
            [result |-> result, token_data |-> token_data, raised |-> FALSE,
             blacklists |-> b, file |-> f, events |-> ev,
             volume_score |-> score, contract_analysis |-> analysis]
    IN IF token_data.t # "dict"
       THEN Outcome(PyNone, bl, file, <<>>, NoScore, NoAnalysis)
       ELSE
       LET token == token_data.m
           volume_score == analyze_volume_script(extract_volume_data(token))
           ev1 == <<Event("analyze_volume", volume_score, PyNone)>>
       IN IF suspicious_volume(volume_score)
          THEN Outcome(PyNone, bl, file, ev1, volume_score, NoAnalysis)
          ELSE IF "address" \notin DOMAIN token
          THEN Outcome(PyNone, bl, file, ev1, volume_score, NoAnalysis)
          ELSE
          LET address == token["address"]
              contract_analysis == check_contract(address, response)
              ev2 == Append(ev1, Event("check_contract", 0, address))
          IN IF is_security_concern(contract_analysis)
             THEN LET t == add_to_blacklist(bl, file, "tokens", address, io[1])
                      d == add_to_blacklist(t.blacklists, t.file, "developers",
                               Get(token, "developer_address", Str(<<>>)), io[2])
                  IN IF t.raised
                     THEN Outcome(PyNone, t.blacklists, t.file, ev2,
                                  volume_score, contract_analysis)
                     ELSE Outcome(PyNone, d.blacklists, d.file, ev2,
                                  volume_score, contract_analysis)
             ELSE Outcome(Dict(enhance(token, volume_score, contract_analysis)),
                          bl, file, ev2, volume_score, contract_analysis)

\* the loop body inserting at the front of the list
collect_front(verified, analyzed_token) ==
    IF Truthy(analyzed_token) THEN <<analyzed_token>> \o verified ELSE verified

\* CryptoSecurityFilter.filter_tokens, the loop body's
\* "if analyzed_token: verified_tokens.append(analyzed_token)"
collect(verified, analyzed_token) ==
    IF Truthy(analyzed_token) THEN Append(verified, analyzed_token) ELSE verified

-----------------------------------------------------------------------------
(* APIManager and the CryptoSecurityFilter of the package: the advisory
   pipeline *)

BackendNames == {"rugcheck", "goplus"}

\* what one backend's validate_token does: returns a verdict or raises
BackendOutcomes == {"verdict", "fault"}

\* APIManager.analyze_token: one entry per configured backend, the error
\* entry when validate_token raised.  outcome maps each backend to what its
\* validate_token does.
api_analyze_token(configured, outcome) ==
    [name \in configured |->
        IF outcome[name] = "fault"
        THEN Dict([k \in {"error"} |-> Str(<<"fault">>)])
        ELSE Dict([k \in {"result"} |-> Str(<<outcome[name]>>)])]

\* CryptoSecurityFilter._calculate_risk_level: the placeholder
calculate_risk_level(api_results, volume_score) == "MEDIUM_RISK"

\* CryptoSecurityFilter.analyze_token.  The except clause formats its message
\* with token_data.get('address', 'N/A'): when token_data has no .get, that
\* raises inside the handler and the exception leaves the call.
analyze_token(token_data, configured, outcome) ==
    LET Outcome(result, raised, ev, score) ==
            [result |-> result, token_data |-> token_data, raised |-> raised,
             events |-> ev, volume_score |-> score]
        Handler == IF token_data.t = "dict"
                   THEN Outcome(PyNone, FALSE, <<>>, NoScore)
                   ELSE Outcome(PyNone, TRUE, <<>>, NoScore)
    IN IF token_data.t # "dict" THEN Handler
       ELSE IF "address" \notin DOMAIN token_data.m THEN Handler
       ELSE
       LET token == token_data.m
           api_results == api_analyze_token(configured, outcome)
           ev1 == <<Event("api_analyze_token", 0, token["address"])>>
           volume_score == analyze_volume(extract_volume_data(token))
           ev2 == Append(ev1, Event("analyze_volume", volume_score, PyNone))
       IN IF volume_score < 5
          THEN Outcome(PyNone, FALSE, ev2, volume_score)
          ELSE Outcome(
                 Dict([key \in DOMAIN token \cup {"api_analysis", "volume_score", "risk_level"} |->
                        CASE key = "api_analysis" -> Dict(api_results)
                          [] key = "volume_score" -> Num(volume_score)
                          [] key = "risk_level" ->
                               Str(<<calculate_risk_level(api_results, volume_score)>>)
                          [] OTHER -> token[key]]),
                 FALSE, ev2, volume_score)

-----------------------------------------------------------------------------
(* Inputs *)

\* volume fields of a token record (numbers in tenths): the scores 1.0, 0.6,
\* 0.4, and a null volume
VolumeProfiles ==
    { [k \in {"volume", "volume_1h", "volume_24h", "volume_liquidity_ratio", "volume_spike"} |->
          CASE k = "volume" -> Num(50000) [] k = "volume_1h" -> Num(5000)
            [] k = "volume_24h" -> Num(100000)
            [] k = "volume_liquidity_ratio" -> Num(2) [] k = "volume_spike" -> Num(15)],
      [k \in {"volume", "volume_1h", "volume_24h", "volume_liquidity_ratio", "volume_spike"} |->
          CASE k = "volume" -> Num(20000) [] k = "volume_1h" -> Num(0)
            [] k = "volume_24h" -> Num(5000)
            [] k = "volume_liquidity_ratio" -> Num(2) [] k = "volume_spike" -> Num(30)],
      [k \in {"volume", "volume_1h", "volume_24h", "volume_liquidity_ratio", "volume_spike"} |->
          CASE k = "volume" -> Num(20000) [] k = "volume_1h" -> Num(0)
            [] k = "volume_24h" -> Num(0)
            [] k = "volume_liquidity_ratio" -> Num(2) [] k = "volume_spike" -> Num(30)],
      [k \in {"volume", "volume_1h", "volume_24h"} |->
          CASE k = "volume" -> PyNone [] k = "volume_1h" -> Num(5000)
            [] k = "volume_24h" -> Num(100000)] }

AddressParts == {EmptyMap} \cup {[k \in {"address"} |-> Str(a)] : a \in Strings}

DeveloperParts ==
    {EmptyMap} \cup {[k \in {"developer_address"} |-> Str(a)] : a \in {<<>>, <<"A">>}}

\* an accept-worthy record (main()'s sample: ratio and spike absent, score
\* 0.8), optionally with free-form metadata, among it keys
\* that the enrichment writes too
GoodToken(address, extra) ==
    Dict([k \in {"volume", "volume_1h", "volume_24h", "address"} |->
            CASE k = "volume" -> Num(50000) [] k = "volume_1h" -> Num(5000)
              [] k = "volume_24h" -> Num(100000) [] k = "address" -> Str(address)]
         @@ extra)

BadVolumeToken(address) ==
    Dict([k \in {"volume", "volume_1h", "volume_24h", "volume_spike", "address"} |->
            CASE k = "volume" -> Num(1000) [] k = "volume_1h" -> Num(0)
              [] k = "volume_24h" -> Num(0) [] k = "volume_spike" -> Num(30)
              [] k = "address" -> Str(address)])

MetadataTokens ==
    { GoodToken(<<"a">>, [k \in {"symbol"} |-> Str(<<"T">>)]),
      GoodToken(<<"a">>, [k \in {"volume_legitimacy_score"} |-> Num(2)]),
      GoodToken(<<"a">>, [k \in {"contract_risk_level"} |-> Str(<<"DANGEROUS">>)]) }

\* the values handed to analyze_one: records, and values that are no mapping
Tokens ==
    {Dict(v @@ a @@ d) : v \in VolumeProfiles, a \in AddressParts, d \in DeveloperParts}
      \cup MetadataTokens \cup {PyNone, PyList}

BatchTokens ==
    { GoodToken(<<"a">>, [k \in {"symbol"} |-> Str(<<"T">>)]),
      GoodToken(<<"A">>, EmptyMap),
      BadVolumeToken(<<"b">>),
      PyNone }

Batches == UNION {[1..k -> BatchTokens] : k \in 0..MaxBatch}

\* what the blacklist file may hold when the filter is constructed
InitialFiles ==
    { MissingFile, CorruptFile,
      YamlFile([c \in Categories |-> IF c = "tokens" THEN {<<"a">>} ELSE {}]),
      YamlFile([c \in {"developers"} |-> {<<"b">>}]) }

\* no direct call of the store made yet
NoStoreCall ==
    [op |-> "none", blacklist_type |-> "", address |-> PyNone, io |-> "ok",
     before |-> EmptyBlacklists, file_before |-> MissingFile,
     raised |-> FALSE, found |-> FALSE, got |-> {}]

\* no thread is inside the store
NoWriters == EmptyMap

\* APIManager.analyze_token is not running
NoApiCall ==
    [pc |-> "idle", token_address |-> <<>>, pending |-> <<>>,
     results |-> EmptyMap, validated |-> <<>>]

\* no _make_request is running
NoRequest ==
    [pc |-> "idle", max_retries |-> 0, attempt |-> 0, attempts |-> <<>>,
     returned |-> "", raised |-> ""]

-----------------------------------------------------------------------------
(* State machine *)

NoCall ==
    [variant |-> "none", token_data |-> PyNone, token_after |-> PyNone,
     response |-> RequestFault, faulted |-> FALSE, before |-> EmptyBlacklists,
     result |-> PyNone, raised |-> FALSE, events |-> <<>>,
     volume_score |-> NoScore, contract_analysis |-> NoAnalysis]

NoVolumeResult == [done |-> FALSE, package |-> 0, script |-> 0]

\* the record of a hard-cutoff call
HardCall(token, response, bl, out) ==
    [variant |-> "hard", token_data |-> token, token_after |-> out.token_data,
     response |-> response, faulted |-> LookupFaulted(response), before |-> bl,
     result |-> out.result, raised |-> out.raised, events |-> out.events,
     volume_score |-> out.volume_score,
     contract_analysis |-> out.contract_analysis]

\* construction of the hard-cutoff filter: BlacklistManager.__init__ loads
\* the file, no call made yet
Init ==
    /\ blacklist_file \in InitialFiles
    /\ blacklists = load_blacklists(blacklist_file)
    /\ apis = {}
    /\ last = NoCall
    /\ pc = "idle"
    /\ tokens_data = <<>>
    /\ idx = 1
    /\ verified_tokens = <<>>
    /\ results = <<>>
    /\ volume_data = PyNone
    /\ vol_result = NoVolumeResult
    /\ store_call = NoStoreCall
    /\ writers = NoWriters
    /\ observed = {}
    /\ api_call = NoApiCall
    /\ request = NoRequest
    /\ versions = {}

\* one call of perform_comprehensive_analysis
AnalyzeOne ==
    /\ pc = "idle"
    /\ last = NoCall
    /\ \E token \in Tokens, response \in Responses, io \in IOOutcomes \X IOOutcomes :
         LET out == perform_comprehensive_analysis(token, response, blacklists,
                                                   blacklist_file, io)
         IN /\ last' = HardCall(token, response, blacklists, out)
            /\ blacklists' = out.blacklists
            /\ blacklist_file' = out.file
    /\ UNCHANGED <<api_call, request, store_call, writers, observed, versions,
                 apis, pc, tokens_data, idx, verified_tokens, results,
                   volume_data, vol_result>>

\* the caller is done with what the call returned
CallerContinues ==
    /\ pc = "idle"
    /\ last # NoCall
    /\ last' = NoCall
    /\ UNCHANGED <<api_call, request, store_call, writers, observed, versions,
                 blacklists, blacklist_file, apis, pc, tokens_data, idx,
                   verified_tokens, results, volume_data, vol_result>>

Next == AnalyzeOne \/ CallerContinues

Spec == Init /\ [][Next]_vars

-----------------------------------------------------------------------------
(* The advisory pipeline, over every configuration of backends *)

InitAdvisory ==
    /\ blacklist_file = MissingFile
    /\ blacklists = load_blacklists(blacklist_file)
    /\ apis \in SUBSET BackendNames
    /\ last = NoCall
    /\ pc = "idle"
    /\ tokens_data = <<>>
    /\ idx = 1
    /\ verified_tokens = <<>>
    /\ results = <<>>
    /\ volume_data = PyNone
    /\ vol_result = NoVolumeResult
    /\ store_call = NoStoreCall
    /\ writers = NoWriters
    /\ observed = {}
    /\ api_call = NoApiCall
    /\ request = NoRequest
    /\ versions = {}

\* one call of the advisory analyze_token
AnalyzeToken ==
    /\ pc = "idle"
    /\ last = NoCall
    /\ \E token \in Tokens, outcome \in [apis -> BackendOutcomes] :
         LET out == analyze_token(token, apis, outcome)
         IN last' = [variant |-> "advisory", token_data |-> token,
                     token_after |-> out.token_data, response |-> RequestFault,
                     faulted |-> (\E name \in apis : outcome[name] = "fault"),
                     before |-> blacklists, result |-> out.result,
                     raised |-> out.raised, events |-> out.events,
                     volume_score |-> out.volume_score,
                     contract_analysis |-> NoAnalysis]
    /\ UNCHANGED <<api_call, request, store_call, writers, observed, versions,
                 blacklists, blacklist_file, apis, pc, tokens_data, idx,
                   verified_tokens, results, volume_data, vol_result>>

NextAdvisory == AnalyzeToken \/ CallerContinues

SpecAdvisory == InitAdvisory /\ [][NextAdvisory]_vars

-----------------------------------------------------------------------------
(* filter_tokens, the batch entry point of the hard-cutoff pipeline *)

InitBatch ==
    /\ blacklist_file = MissingFile
    /\ blacklists = load_blacklists(blacklist_file)
    /\ apis = {}
    /\ last = NoCall
    /\ pc = "idle"
    /\ tokens_data = <<>>
    /\ idx = 1
    /\ verified_tokens = <<>>
    /\ results = <<>>
    /\ volume_data = PyNone
    /\ vol_result = NoVolumeResult
    /\ store_call = NoStoreCall
    /\ writers = NoWriters
    /\ observed = {}
    /\ api_call = NoApiCall
    /\ request = NoRequest
    /\ versions = {}

\* filter_tokens is called: verified_tokens = []
FilterStart ==
    /\ pc = "idle"
    /\ \E batch \in Batches : tokens_data' = batch
    /\ idx' = 1
    /\ verified_tokens' = <<>>
    /\ results' = <<>>
    /\ pc' = "filter"
    /\ UNCHANGED <<api_call, request, store_call, writers, observed, versions,
                 blacklists, blacklist_file, apis, last, volume_data, vol_result>>

\* one iteration of the for loop
FilterStep ==
    /\ pc = "filter"
    /\ idx <= Len(tokens_data)
    /\ \E response \in Responses, io \in IOOutcomes \X IOOutcomes :
         LET out == perform_comprehensive_analysis(tokens_data[idx], response,
                                                   blacklists, blacklist_file, io)
         IN /\ blacklists' = out.blacklists
            /\ blacklist_file' = out.file
            /\ results' = Append(results, out.result)
            /\ verified_tokens' = collect(verified_tokens, out.result)
    /\ idx' = idx + 1
    /\ UNCHANGED <<api_call, request, store_call, writers, observed, versions,
                 apis, last, pc, tokens_data, volume_data, vol_result>>

\* the loop is over: return verified_tokens
FilterReturn ==
    /\ pc = "filter"
    /\ idx > Len(tokens_data)
    /\ pc' = "returned"
    /\ UNCHANGED <<api_call, request, store_call, writers, observed, versions,
                 blacklists, blacklist_file, apis, last, tokens_data, idx,
                   verified_tokens, results, volume_data, vol_result>>

\* the caller is done with the returned list
BatchCallerContinues ==
    /\ pc = "returned"
    /\ pc' = "idle"
    /\ tokens_data' = <<>>
    /\ idx' = 1
    /\ verified_tokens' = <<>>
    /\ results' = <<>>
    /\ UNCHANGED <<api_call, request, store_call, writers, observed, versions,
                 blacklists, blacklist_file, apis, last, volume_data, vol_result>>

NextBatch == FilterStart \/ FilterStep \/ FilterReturn \/ BatchCallerContinues

SpecBatch == InitBatch /\ [][NextBatch]_vars

-----------------------------------------------------------------------------
(* VolumeAnalyzer.analyze_volume called directly, over volume records with
   absent, boundary, null and non-numeric fields *)

Opt(key, values) == {EmptyMap} \cup {[k \in {key} |-> v] : v \in values}

VolumeInputs ==
    {Dict(a @@ b @@ c @@ d @@ e) :
        a \in Opt("total_volume", {Num(10000), Num(20000), PyNone, Str(<<"n/a">>)}),
        b \in Opt("1h_volume", {Num(0), Num(1000), PyNone}),
        c \in Opt("24h_volume", {Num(0), Num(5000)}),
        d \in Opt("volume_liquidity_ratio", {Num(1), Num(2), Str(<<"n/a">>)}),
        e \in Opt("volume_spike_ratio", {Num(15), Num(20), Num(30), PyNone})}
      \cup {PyNone, PyList}

InitVolume ==
    /\ volume_data \in VolumeInputs
    /\ vol_result = NoVolumeResult
    /\ store_call = NoStoreCall
    /\ writers = NoWriters
    /\ observed = {}
    /\ api_call = NoApiCall
    /\ request = NoRequest
    /\ versions = {}
    /\ blacklist_file = MissingFile
    /\ blacklists = load_blacklists(blacklist_file)
    /\ apis = {}
    /\ last = NoCall
    /\ pc = "idle"
    /\ tokens_data = <<>>
    /\ idx = 1
    /\ verified_tokens = <<>>
    /\ results = <<>>

\* both implementations applied to the record; neither can raise
ScoreVolume ==
    /\ ~vol_result.done
    /\ vol_result' = [done |-> TRUE,
                      package |-> analyze_volume(volume_data),
                      script |-> analyze_volume_script(volume_data)]
    /\ UNCHANGED <<api_call, request, store_call, writers, observed, versions,
                 blacklists, blacklist_file, apis, last, pc, tokens_data, idx,
                   verified_tokens, results, volume_data>>

NextVolume == ScoreVolume

SpecVolume == InitVolume /\ [][NextVolume]_vars

-----------------------------------------------------------------------------
(* Properties of VolumeAnalyzer (SpecVolume) *)

\* every field that is present is a number
NumericRecord(vd) ==
    vd.t = "dict" /\ \A key \in DOMAIN vd.m : vd.m[key].t = "num"

\* the number (in tenths) a field stands for when a missing, null or
\* non-numeric field counts as the documented default
FieldOrDefault(vd, key, default) ==
    IF key \in DOMAIN vd.m /\ vd.m[key].t = "num" THEN vd.m[key].n ELSE default

\* how many of the five documented checks hold
ChecksHolding(vd) ==
    (IF FieldOrDefault(vd, "total_volume", 0) > 10000 THEN 1 ELSE 0)
      + (IF FieldOrDefault(vd, "1h_volume", 0) > 0 THEN 1 ELSE 0)
      + (IF FieldOrDefault(vd, "24h_volume", 0) > 0 THEN 1 ELSE 0)
      + (IF FieldOrDefault(vd, "volume_liquidity_ratio", 0) > 1 THEN 1 ELSE 0)
      + (IF FieldOrDefault(vd, "volume_spike_ratio", 10) < 20 THEN 1 ELSE 0)

\* C9: for every volume record with numeric fields the score of both
\* VolumeAnalyzer implementations is (number of the five checks that hold)/5,
\* hence one of 0.0, 0.2, 0.4, 0.6, 0.8, 1.0
C9_ScoreIsChecksOverFive ==
    (vol_result.done /\ NumericRecord(volume_data)) =>
        /\ vol_result.package * 5 = ChecksHolding(volume_data) * 10
        /\ vol_result.script * 5 = ChecksHolding(volume_data) * 10
        /\ vol_result.package \in {0, 2, 4, 6, 8, 10}
        /\ vol_result.script \in {0, 2, 4, 6, 8, 10}

\* a record with all five fields numeric, three checks holding, scored 0.6;
\* the total volume sits on its threshold, 1000, and does not count
C9_Witness ==
    /\ vol_result.done
    /\ NumericRecord(volume_data)
    /\ DOMAIN volume_data.m = VolumeKeys
    /\ volume_data.m["total_volume"].n = 10000
    /\ ChecksHolding(volume_data) = 3
    /\ vol_result.package = 6
    /\ vol_result.script = 6

\* C10: analyze_volume never raises, and a field that is absent, null or
\* non-numeric counts as its documented default while the other fields are
\* scored normally
C10_MalformedFieldIsDefault ==
    (vol_result.done /\ volume_data.t = "dict") =>
        /\ vol_result.package * 5 = ChecksHolding(volume_data) * 10
        /\ vol_result.script * 5 = ChecksHolding(volume_data) * 10

-----------------------------------------------------------------------------
(* Properties of the pipelines (Spec, SpecAdvisory) *)

Accepted == last.result.t = "dict"
Rejected == last.result.t = "none" /\ ~last.raised

\* the call was given a record that has an address
HasAddress == last.token_data.t = "dict" /\ "address" \in DOMAIN last.token_data.m

AddressOf == last.token_data.m["address"]

\* the collaborators the call invoked, by name
Called(op) == \E i \in 1..Len(last.events) : last.events[i].op = op

\* C1: whatever value analyze_one is given, it returns an enriched record or
\* the rejection value and no fault reaches the caller, in both pipelines
C1_NeverRaises ==
    last.variant # "none" => (~last.raised /\ (Accepted \/ Rejected))

\* the volume fields of the token, as the five metrics, are all numbers
NumericVolumes == NumericRecord(extract_volume_data(last.token_data.m))

\* C2: a hard-cutoff call on a token with an address ends ACCEPTED exactly when
\* the volume score is at least 0.5 (for numeric fields: at least 3 of the 5
\* checks hold; the score is never 0.5 itself), the classification is not
\* bundled and its risk level is SAFE, LOW_RISK or MEDIUM_RISK; in every other
\* case it ends REJECTED
C2_HardCutoffVerdict ==
    (last.variant = "hard" /\ HasAddress) =>
        /\ Accepted <=>
             /\ last.volume_score >= 5
             /\ ~last.contract_analysis.is_bundled
             /\ last.contract_analysis.risk_level \in {"SAFE", "LOW_RISK", "MEDIUM_RISK"}
        /\ ~Accepted => Rejected
        /\ last.volume_score # 5
        /\ NumericVolumes =>
             (last.volume_score >= 5
                <=> ChecksHolding(extract_volume_data(last.token_data.m)) >= 3)
        /\ (last.volume_score >= 5 /\ ~last.faulted) =>
             /\ last.contract_analysis.is_bundled = last.response.is_bundled
             /\ last.contract_analysis.risk_level = last.response.risk_level

\* a DANGEROUS, unbundled verdict on a token scoring 0.6: REJECTED
C2_Witness ==
    /\ last.variant = "hard" /\ HasAddress
    /\ last.volume_score = 6
    /\ ~last.faulted
    /\ last.response.risk_level = "DANGEROUS"
    /\ ~last.response.is_bundled
    /\ Rejected

\* the call got past the volume check and its classification is a security
\* concern: bundled, or HIGH_RISK or DANGEROUS
SecurityConcern ==
    /\ last.variant = "hard" /\ HasAddress
    /\ last.volume_score >= 5
    /\ \/ last.contract_analysis.is_bundled
       \/ last.contract_analysis.risk_level \in {"HIGH_RISK", "DANGEROUS"}

\* after the call the store answers contains() for every spelling of the token
\* address and, when a non-empty developer_address was supplied, for it
BlacklistedAfter ==
    /\ \A v \in CaseVariants(AddressOf.s) : is_blacklisted(blacklists, "tokens", v)
    /\ LET dev == Get(last.token_data.m, "developer_address", Str(<<>>))
       IN Len(dev.s) > 0 =>
            \A v \in CaseVariants(dev.s) : is_blacklisted(blacklists, "developers", v)

\* C3 as stated: any token passing the volume check with a bundled, HIGH_RISK
\* or DANGEROUS classification ends REJECTED with its address in the tokens
\* blacklist and a supplied developer address in the developers blacklist
C3_RejectedAndBlacklisted ==
    SecurityConcern => (Rejected /\ BlacklistedAfter)

\* C3 amended: the same, for a token whose address is not the empty string
C3_RejectedAndBlacklistedNonEmpty ==
    (SecurityConcern /\ Len(AddressOf.s) > 0) => (Rejected /\ BlacklistedAfter)

\* an upper-case token address and an upper-case developer address, blacklisted
\* by a bundled verdict of low risk
C3_Witness ==
    /\ SecurityConcern
    /\ AddressOf.s = <<"A">>
    /\ "developer_address" \in DOMAIN last.token_data.m
    /\ last.token_data.m["developer_address"].s = <<"A">>
    /\ last.contract_analysis.is_bundled
    /\ last.contract_analysis.risk_level = "LOW_RISK"
    /\ <<"a">> \notin last.before["tokens"]
    /\ Rejected

\* C4: a token whose address is in the tokens blacklist when analyze_one is
\* called ends REJECTED, whatever the classifier answers
C4_BlacklistedIsRejected ==
    (last.variant = "hard" /\ HasAddress
       /\ is_blacklisted(last.before, "tokens", AddressOf.s)) => Rejected

\* C5: when the contract-risk lookup faults for a token that passes the volume
\* check, the token ends REJECTED and nothing is raised
C5_LookupFaultRejects ==
    (last.variant # "none" /\ HasAddress /\ last.faulted /\ last.volume_score >= 5)
        => Rejected

\* C6: in the hard-cutoff pipeline the classifier is invoked only after the
\* volume score was computed and found to be at least 0.5; for a score below
\* 0.5 it is not invoked at all
C6_ClassifyOnlyAfterVolumePass ==
    last.variant = "hard" =>
        /\ \A i \in 1..Len(last.events) :
             last.events[i].op = "check_contract" =>
                \E j \in 1..(i - 1) : /\ last.events[j].op = "analyze_volume"
                                      /\ last.events[j].score >= 5
        /\ (last.volume_score < 5) => ~Called("check_contract")

\* a token with an address scoring 0.4: scored, rejected, classifier not called
C6_Witness ==
    /\ last.variant = "hard" /\ HasAddress
    /\ last.volume_score = 4
    /\ Called("analyze_volume")
    /\ ~Called("check_contract")
    /\ Rejected

EnrichmentKeys == {"volume_legitimacy_score", "contract_risk_level"}

\* what the enrichment adds: the computed score and the name of the risk level
AddedFields ==
    /\ DOMAIN last.result.m = DOMAIN last.token_data.m \cup EnrichmentKeys
    /\ last.result.m["volume_legitimacy_score"] = Num(last.volume_score)
    /\ last.result.m["contract_risk_level"] = Str(<<last.response.risk_level>>)
    /\ last.token_after = last.token_data

\* C8 as stated: an ACCEPTED result has every field of the input record with
\* the input's value, plus the score and the risk level name; the input record
\* is unmodified
C8_EnrichedKeepsAllFields ==
    (last.variant = "hard" /\ Accepted) =>
        /\ \A key \in DOMAIN last.token_data.m :
             last.result.m[key] = last.token_data.m[key]
        /\ AddedFields

\* C8 amended: every field of the input record other than
\* volume_legitimacy_score and contract_risk_level keeps the input's value
C8_EnrichedKeepsOtherFields ==
    (last.variant = "hard" /\ Accepted) =>
        /\ \A key \in DOMAIN last.token_data.m \ EnrichmentKeys :
             last.result.m[key] = last.token_data.m[key]
        /\ AddedFields

\* an accepted record with pass-through metadata, scored 0.8
C8_Witness ==
    /\ last.variant = "hard" /\ Accepted
    /\ "symbol" \in DOMAIN last.token_data.m
    /\ last.result.m["symbol"] = Str(<<"T">>)
    /\ last.volume_score = 8
    /\ last.result.m["contract_risk_level"] = Str(<<"SAFE">>)

-----------------------------------------------------------------------------
(* Properties of filter_tokens (SpecBatch) *)

\* the positions of the input whose analysis returned a record, in order
RECURSIVE AcceptedPositions(_)
AcceptedPositions(n) ==
    IF n = 0 THEN <<>>
    ELSE IF results[n].t = "dict"
         THEN Append(AcceptedPositions(n - 1), n)
         ELSE AcceptedPositions(n - 1)

\* C7: filter_tokens returns exactly the enriched records of the tokens that
\* the analysis accepted, in the input's order: its k-th entry is the record
\* returned for the k-th accepted token, whose fields it carries
C7_OutputIsAcceptedInOrder ==
    pc = "returned" =>
        LET pos == AcceptedPositions(Len(tokens_data))
        IN /\ Len(results) = Len(tokens_data)
           /\ Len(verified_tokens) = Len(pos)
           /\ \A k \in 1..Len(pos) :
                /\ verified_tokens[k] = results[pos[k]]
                /\ \A key \in DOMAIN tokens_data[pos[k]].m \ EnrichmentKeys :
                     verified_tokens[k].m[key] = tokens_data[pos[k]].m[key]

\* a list of two different tokens, both accepted: two entries returned
C7_Witness ==
    /\ pc = "returned"
    /\ Len(tokens_data) = 2
    /\ tokens_data[1] # tokens_data[2]
    /\ Len(verified_tokens) = 2

-----------------------------------------------------------------------------
(* More properties of VolumeAnalyzer (SpecVolume) *)

\* C11: analyze_volume of a record in which none of the five metrics is
\* present returns the score 0.0
C11_NoMetricsScoresZero ==
    (vol_result.done /\ volume_data = Dict(EmptyMap)) =>
        (vol_result.package = 0 /\ vol_result.script = 0)

-----------------------------------------------------------------------------
(* BlacklistManager called directly: load, then any sequence of add, remove,
   clear, contains and get *)

\* BlacklistManager.remove_from_blacklist; raised marks the AttributeError of
\* address.lower() on a value that is not a string
remove_from_blacklist(bl, file, blacklist_type, address, io) ==
    IF blacklist_type \notin DOMAIN bl
    THEN [blacklists |-> bl, file |-> file, raised |-> FALSE]
    ELSE IF address.t # "str"
    THEN [blacklists |-> bl, file |-> file, raised |-> TRUE]
    ELSE LET removed == [bl EXCEPT ![blacklist_type] = @ \ {lower(address.s)}]
         IN [blacklists |-> removed,
             file |-> save_blacklists(removed, file, io),
             raised |-> FALSE]

\* clear_blacklist assigning without the membership test
\* (self.blacklists[blacklist_type] = set()): an unknown category is created
\* and saved
clear_blacklist_unchecked(bl, file, blacklist_type, io) ==
    LET cleared == [c \in DOMAIN bl \cup {blacklist_type} |->
                      IF c = blacklist_type THEN {} ELSE bl[c]]
    IN [blacklists |-> cleared,
        file |-> save_blacklists(cleared, file, io),
        raised |-> FALSE]

\* BlacklistManager.clear_blacklist
clear_blacklist(bl, file, blacklist_type, io) ==
    IF blacklist_type \in DOMAIN bl
    THEN LET cleared == [bl EXCEPT ![blacklist_type] = {}]
         IN [blacklists |-> cleared,
             file |-> save_blacklists(cleared, file, io),
             raised |-> FALSE]
    ELSE [blacklists |-> bl, file |-> file, raised |-> FALSE]

\* BlacklistManager.get_blacklist: self.blacklists.get(blacklist_type, set())
get_blacklist(bl, blacklist_type) == Get(bl, blacklist_type, {})

\* the categories and addresses the calls are made with: two categories the
\* store has and one it has not; the empty string, a blank one, and two
\* spellings of one address
StoreCategories == {"tokens", "domains", "wallets"}

StoreAddresses == {<<>>, <<" ">>, <<"a">>, <<"A">>}

\* what the file may hold when the store is constructed: nothing, garbage,
\* what the store itself wrote, a hand-edited file with an upper-case entry and
\* a category the store does not have, a file lacking keys, and one with a
\* category that is no list
StoreFiles ==
    { MissingFile, CorruptFile,
      YamlFile([c \in Categories |-> IF c = "tokens" THEN {<<"a">>} ELSE {}]),
      YamlFile([c \in Categories \cup {"wallets"} |->
                  CASE c = "tokens" -> {<<"A">>}
                    [] c = "contracts" -> {<<"b">>}
                    [] c = "wallets" -> {<<"a">>}
                    [] OTHER -> {}]),
      YamlFile([c \in {"developers"} |-> {<<"b">>}]),
      NotAListFile([c \in {"developers"} |-> {<<"b">>}]) }

StoreCall(op, blacklist_type, address, io, out) ==
    [op |-> op, blacklist_type |-> blacklist_type, address |-> address,
     io |-> io, before |-> blacklists, file_before |-> blacklist_file,
     raised |-> out.raised, found |-> FALSE, got |-> {}]

InitStore ==
    /\ blacklist_file \in StoreFiles
    /\ blacklists = load_blacklists(blacklist_file)
    /\ apis = {}
    /\ last = NoCall
    /\ pc = "idle"
    /\ tokens_data = <<>>
    /\ idx = 1
    /\ verified_tokens = <<>>
    /\ results = <<>>
    /\ volume_data = PyNone
    /\ vol_result = NoVolumeResult
    /\ store_call = [NoStoreCall EXCEPT !.op = "load"]
    /\ writers = NoWriters
    /\ observed = {}
    /\ api_call = NoApiCall
    /\ request = NoRequest
    /\ versions = {}

StoreUnchanged ==
    UNCHANGED <<apis, last, pc, tokens_data, idx, verified_tokens, results,
                volume_data, vol_result, writers, observed, versions,
                api_call, request>>

Add ==
    /\ store_call.op = "none"
    /\ \E c \in StoreCategories, a \in StoreAddresses, io \in IOOutcomes :
         LET out == add_to_blacklist(blacklists, blacklist_file, c, Str(a), io)
         IN /\ blacklists' = out.blacklists
            /\ blacklist_file' = out.file
            /\ store_call' = StoreCall("add", c, Str(a), io, out)
    /\ StoreUnchanged

Remove ==
    /\ store_call.op = "none"
    /\ \E c \in StoreCategories, a \in StoreAddresses, io \in IOOutcomes :
         LET out == remove_from_blacklist(blacklists, blacklist_file, c, Str(a), io)
         IN /\ blacklists' = out.blacklists
            /\ blacklist_file' = out.file
            /\ store_call' = StoreCall("remove", c, Str(a), io, out)
    /\ StoreUnchanged

Clear ==
    /\ store_call.op = "none"
    /\ \E c \in StoreCategories, io \in IOOutcomes :
         LET out == clear_blacklist(blacklists, blacklist_file, c, io)
         IN /\ blacklists' = out.blacklists
            /\ blacklist_file' = out.file
            /\ store_call' = StoreCall("clear", c, PyNone, io, out)
    /\ StoreUnchanged

\* is_blacklisted
Contains ==
    /\ store_call.op = "none"
    /\ \E c \in StoreCategories, a \in StoreAddresses :
         store_call' = [NoStoreCall EXCEPT
                          !.op = "contains", !.blacklist_type = c,
                          !.address = Str(a), !.before = blacklists,
                          !.file_before = blacklist_file,
                          !.found = is_blacklisted(blacklists, c, a)]
    /\ UNCHANGED <<blacklists, blacklist_file>>
    /\ StoreUnchanged

\* get_blacklist
GetBlacklist ==
    /\ store_call.op = "none"
    /\ \E c \in StoreCategories :
         store_call' = [NoStoreCall EXCEPT
                          !.op = "get", !.blacklist_type = c,
                          !.before = blacklists,
                          !.file_before = blacklist_file,
                          !.got = get_blacklist(blacklists, c)]
    /\ UNCHANGED <<blacklists, blacklist_file>>
    /\ StoreUnchanged

\* the caller is done with the call
StoreCallerContinues ==
    /\ store_call.op # "none"
    /\ store_call' = NoStoreCall
    /\ UNCHANGED <<blacklists, blacklist_file>>
    /\ StoreUnchanged

NextStore ==
    \/ Add \/ Remove \/ Clear \/ Contains \/ GetBlacklist
    \/ StoreCallerContinues

SpecStore == InitStore /\ [][NextStore]_vars

-----------------------------------------------------------------------------
(* One BlacklistManager shared by two threads that each make one mutating
   call, with readers inside the process and a reader of the file outside it.
   The code holds no lock, so a call is the sequence of its steps: the change
   of the set, the copy taken by _save_blacklists, open(..., 'w'), which
   truncates the file, and yaml.dump with the close that writes it out. *)

Threads == {"t1", "t2"}

\* the calls the threads make
WriterCalls ==
    { [op |-> "add", blacklist_type |-> "tokens", address |-> Str(<<"a">>)],
      [op |-> "add", blacklist_type |-> "developers", address |-> Str(<<"a">>)],
      [op |-> "remove", blacklist_type |-> "tokens", address |-> Str(<<"b">>)],
      [op |-> "clear", blacklist_type |-> "domains", address |-> PyNone] }

\* the file the shared store was loaded from
SharedFiles ==
    { YamlFile([c \in Categories |-> IF c = "tokens" THEN {<<"b">>} ELSE {}]),
      YamlFile([c \in Categories |->
                  IF c \in {"tokens", "domains"} THEN {<<"b">>} ELSE {}]) }

\* a thread about to make its call
Writer(call) ==
    [pc |-> "start", op |-> call.op, blacklist_type |-> call.blacklist_type,
     address |-> call.address, data |-> EmptyBlacklists]

\* the change a call makes to self.blacklists, before it saves
mutation(bl, w) ==
    CASE w.op = "add" ->
           add_to_blacklist(bl, MissingFile, w.blacklist_type, w.address,
                            "error").blacklists
      [] w.op = "remove" ->
           remove_from_blacklist(bl, MissingFile, w.blacklist_type, w.address,
                                 "error").blacklists
      [] OTHER ->
           clear_blacklist(bl, MissingFile, w.blacklist_type,
                           "error").blacklists

\* open(self.blacklist_file, 'w'): the file exists and is empty, which
\* yaml.safe_load reads as None
TruncatedFile == YamlFile(EmptyMap)

InitConc ==
    /\ blacklist_file \in SharedFiles
    /\ blacklists = load_blacklists(blacklist_file)
    /\ apis = {}
    /\ last = NoCall
    /\ pc = "idle"
    /\ tokens_data = <<>>
    /\ idx = 1
    /\ verified_tokens = <<>>
    /\ results = <<>>
    /\ volume_data = PyNone
    /\ vol_result = NoVolumeResult
    /\ store_call = NoStoreCall
    /\ writers \in [Threads -> {Writer(call) : call \in WriterCalls}]
    /\ observed = {}
    /\ api_call = NoApiCall
    /\ request = NoRequest
    /\ versions = {blacklists}

ConcUnchanged ==
    UNCHANGED <<apis, last, pc, tokens_data, idx, verified_tokens, results,
                volume_data, vol_result, api_call, request>>

\* self.blacklists[blacklist_type].add / .discard / .clear
WriterMutate ==
    /\ \E t \in Threads :
         /\ writers[t].pc = "start"
         /\ blacklists' = mutation(blacklists, writers[t])
         /\ writers' = [writers EXCEPT ![t].pc = "mutated"]
    /\ versions' = versions \cup {blacklists'}
    /\ UNCHANGED <<blacklist_file, store_call, observed>>
    /\ ConcUnchanged

\* data = {k: list(v) for k, v in self.blacklists.items()}
WriterSnapshot ==
    /\ \E t \in Threads :
         /\ writers[t].pc = "mutated"
         /\ writers' = [writers EXCEPT ![t].pc = "copied",
                                       ![t].data = blacklists]
    /\ UNCHANGED <<blacklists, blacklist_file, store_call, observed, versions>>
    /\ ConcUnchanged

\* with open(self.blacklist_file, 'w') as f
WriterOpen ==
    /\ \E t \in Threads :
         /\ writers[t].pc = "copied"
         /\ writers' = [writers EXCEPT ![t].pc = "opened"]
    /\ blacklist_file' = TruncatedFile
    /\ UNCHANGED <<blacklists, store_call, observed, versions>>
    /\ ConcUnchanged

\* yaml.dump(data, f) and the close at the end of the with block
WriterDump ==
    /\ \E t \in Threads :
         /\ writers[t].pc = "opened"
         /\ blacklist_file' = YamlFile(writers[t].data)
         /\ writers' = [writers EXCEPT ![t].pc = "done"]
    /\ UNCHANGED <<blacklists, store_call, observed, versions>>
    /\ ConcUnchanged

\* the call is cancelled or the process stopped between open and yaml.dump
WriterInterrupted ==
    /\ \E t \in Threads :
         /\ writers[t].pc = "opened"
         /\ writers' = [writers EXCEPT ![t].pc = "interrupted"]
    /\ UNCHANGED <<blacklists, blacklist_file, store_call, observed, versions>>
    /\ ConcUnchanged

\* another process constructs a BlacklistManager on the same file
ExternalLoad ==
    /\ observed' = observed \cup {load_blacklists(blacklist_file)}
    /\ UNCHANGED <<blacklists, blacklist_file, store_call, writers, versions>>
    /\ ConcUnchanged

\* a third thread calls is_blacklisted
ReaderContains ==
    /\ store_call.op = "none"
    /\ \E a \in {<<"a">>, <<"b">>} :
         store_call' = [NoStoreCall EXCEPT
                          !.op = "contains", !.blacklist_type = "tokens",
                          !.address = Str(a),
                          !.found = is_blacklisted(blacklists, "tokens", a)]
    /\ UNCHANGED <<blacklists, blacklist_file, writers, observed, versions>>
    /\ ConcUnchanged

\* a third thread calls get_blacklist
ReaderGet ==
    /\ store_call.op = "none"
    /\ store_call' = [NoStoreCall EXCEPT
                        !.op = "get", !.blacklist_type = "tokens",
                        !.got = get_blacklist(blacklists, "tokens")]
    /\ UNCHANGED <<blacklists, blacklist_file, writers, observed, versions>>
    /\ ConcUnchanged

\* the reading thread is done with its call
ReaderContinues ==
    /\ store_call.op # "none"
    /\ store_call' = NoStoreCall
    /\ UNCHANGED <<blacklists, blacklist_file, writers, observed, versions>>
    /\ ConcUnchanged

NextConc ==
    \/ WriterMutate \/ WriterSnapshot \/ WriterOpen \/ WriterDump
    \/ WriterInterrupted
    \/ ExternalLoad
    \/ ReaderContains \/ ReaderGet \/ ReaderContinues

SpecConc == InitConc /\ [][NextConc]_vars

-----------------------------------------------------------------------------
(* APIManager.analyze_token, iteration by iteration of its loop over
   self.apis.items(), for every configuration of backends *)

\* APIManager._initialize_apis: the backends of a default-constructed manager
initialize_apis == {}

\* what validate_token of a backend does: returns a verdict, returns a
\* negative verdict, or raises
ValidateOutcomes == BackendOutcomes \cup {"negative"}

ApiAddresses == {<<"a">>, <<"A">>, <<"b", "A">>}

\* the orders in which a dict of the configured backends can iterate
ApiOrders(configured) ==
    {order \in [1..Cardinality(configured) -> configured] :
        \A i, j \in 1..Cardinality(configured) : order[i] = order[j] => i = j}

\* the loop body with the try / except left out: the fault of validate_token
\* leaves analyze_token
validate_entry_unguarded(so_far, api_name, outcome) ==
    IF outcome = "fault"
    THEN [results |-> so_far, raised |-> TRUE]
    ELSE [results |-> (api_name :> Dict([k \in {"result"} |-> Str(<<outcome>>)]))
                        @@ so_far,
          raised |-> FALSE]

\* the body of the loop of APIManager.analyze_token: the try / except around
\* results[api_name] = await api_client.validate_token(token_address)
validate_entry(so_far, api_name, outcome) ==
    IF outcome = "fault"
    THEN [results |-> (api_name :> Dict([k \in {"error"} |-> Str(<<"fault">>)]))
                        @@ so_far,
          raised |-> FALSE]
    ELSE [results |-> (api_name :> Dict([k \in {"result"} |-> Str(<<outcome>>)]))
                        @@ so_far,
          raised |-> FALSE]

\* an APIManager, default-constructed or with backends configured
InitApi ==
    /\ blacklist_file = MissingFile
    /\ blacklists = load_blacklists(blacklist_file)
    /\ apis \in SUBSET BackendNames
    /\ last = NoCall
    /\ pc = "idle"
    /\ tokens_data = <<>>
    /\ idx = 1
    /\ verified_tokens = <<>>
    /\ results = <<>>
    /\ volume_data = PyNone
    /\ vol_result = NoVolumeResult
    /\ store_call = NoStoreCall
    /\ writers = NoWriters
    /\ observed = {}
    /\ versions = {}
    /\ api_call = NoApiCall
    /\ request = NoRequest

ApiUnchanged ==
    UNCHANGED <<blacklists, blacklist_file, apis, last, pc, tokens_data, idx,
                verified_tokens, results, volume_data, vol_result, store_call,
                writers, observed, versions, request>>

\* analyze_token is called: results = {}
ApiStart ==
    /\ api_call.pc = "idle"
    /\ \E address \in ApiAddresses, order \in ApiOrders(apis) :
         api_call' = [pc |-> "loop", token_address |-> address,
                      pending |-> order, results |-> EmptyMap,
                      validated |-> <<>>]
    /\ ApiUnchanged

\* one iteration of the for loop
ApiValidate ==
    /\ api_call.pc = "loop"
    /\ api_call.pending # <<>>
    /\ \E outcome \in ValidateOutcomes :
         LET api_name == Head(api_call.pending)
             out == validate_entry(api_call.results, api_name, outcome)
         IN api_call' = [api_call EXCEPT
                           !.pc = IF out.raised THEN "raised" ELSE "loop",
                           !.pending = Tail(@),
                           !.results = out.results,
                           !.validated = Append(@, [name |-> api_name,
                                                    outcome |-> outcome])]
    /\ ApiUnchanged

\* return results
ApiReturn ==
    /\ api_call.pc = "loop"
    /\ api_call.pending = <<>>
    /\ api_call' = [api_call EXCEPT !.pc = "returned"]
    /\ ApiUnchanged

\* the caller is done with the mapping, or with the fault
ApiCallerContinues ==
    /\ api_call.pc \in {"returned", "raised"}
    /\ api_call' = NoApiCall
    /\ ApiUnchanged

NextApi == ApiStart \/ ApiValidate \/ ApiReturn \/ ApiCallerContinues

SpecApi == InitApi /\ [][NextApi]_vars

-----------------------------------------------------------------------------
(* BaseAPIClient._make_request, attempt by attempt, for every configured
   max_retries *)

\* what one attempt does: session.request and response.json() answer, or
\* something in the try block raises
Responded(json) == [ok |-> TRUE, value |-> json]
Failed(e) == [ok |-> FALSE, value |-> e]

AttemptOutcomes ==
    {Responded(json) : json \in {"json1", "json2"}}
      \cup {Failed(e) : e \in {"timeout", "refused", "http500"}}

\* one iteration of "for attempt in range(self.config.max_retries)": return
\* the response, re-raise on the last attempt, or log and go on
make_request_attempt(req, outcome) ==
    LET made == Append(req.attempts, outcome)
    IN IF outcome.ok
       THEN [req EXCEPT !.pc = "returned", !.attempts = made,
                        !.returned = outcome.value]
       ELSE IF req.attempt = req.max_retries - 1
       THEN [req EXCEPT !.pc = "raised", !.attempts = made,
                        !.raised = outcome.value]
       ELSE [req EXCEPT !.attempt = @ + 1, !.attempts = made]

\* a client whose APIConfig carries some max_retries
InitRetry ==
    /\ blacklist_file = MissingFile
    /\ blacklists = load_blacklists(blacklist_file)
    /\ apis = {}
    /\ last = NoCall
    /\ pc = "idle"
    /\ tokens_data = <<>>
    /\ idx = 1
    /\ verified_tokens = <<>>
    /\ results = <<>>
    /\ volume_data = PyNone
    /\ vol_result = NoVolumeResult
    /\ store_call = NoStoreCall
    /\ writers = NoWriters
    /\ observed = {}
    /\ versions = {}
    /\ api_call = NoApiCall
    /\ \E n \in 0..MaxRetries : request = [NoRequest EXCEPT !.max_retries = n]

RetryUnchanged ==
    UNCHANGED <<blacklists, blacklist_file, apis, last, pc, tokens_data, idx,
                verified_tokens, results, volume_data, vol_result, store_call,
                writers, observed, versions, api_call>>

\* _make_request is called: attempt = 0
RequestStart ==
    /\ request.pc = "idle"
    /\ request' = [request EXCEPT !.pc = "loop", !.attempt = 0,
                                  !.attempts = <<>>, !.returned = "",
                                  !.raised = ""]
    /\ RetryUnchanged

\* one attempt
RequestAttempt ==
    /\ request.pc = "loop"
    /\ request.attempt < request.max_retries
    /\ \E outcome \in AttemptOutcomes :
         request' = make_request_attempt(request, outcome)
    /\ RetryUnchanged

\* range(max_retries) is exhausted: the function ends without a return
\* statement and the call evaluates to None
RequestExhausted ==
    /\ request.pc = "loop"
    /\ request.attempt >= request.max_retries
    /\ request' = [request EXCEPT !.pc = "returned", !.returned = "None"]
    /\ RetryUnchanged

\* the caller is done with the response, or with the failure
RequestCallerContinues ==
    /\ request.pc \in {"returned", "raised"}
    /\ request' = [NoRequest EXCEPT !.max_retries = request.max_retries]
    /\ RetryUnchanged

NextRetry ==
    \/ RequestStart \/ RequestAttempt \/ RequestExhausted
    \/ RequestCallerContinues

SpecRetry == InitRetry /\ [][NextRetry]_vars

-----------------------------------------------------------------------------
(* Properties of the blacklist store (SpecStore) *)

\* a mutating call on a category of the store has returned
Mutated ==
    /\ store_call.op \in {"add", "remove", "clear"}
    /\ store_call.blacklist_type \in Categories
    /\ ~store_call.raised

\* the members of a set that spell the address, in any letter case
Spellings(set, address) == {m \in set : lower(m) = lower(address)}

\* str.strip() == '': empty or whitespace only
Blank(str) == \A i \in 1..Len(str) : str[i] = " "

\* C12: in every reachable state of the store every stored address is
\* lower-case and contains(category, a) answers alike for every letter-case
\* variant of a stored address: it is found in any case
C12_StoredLowercaseFoundInAnyCase ==
    \A c \in Categories : \A a \in blacklists[c] :
        /\ a = lower(a)
        /\ \A v \in CaseVariants(a) : is_blacklisted(blacklists, c, v)

\* C13: whenever an add, remove or clear on a valid category has returned, a
\* store loaded afresh from the file has the same four sets as the store that
\* performed the mutation
C13_FileHoldsMemoryAfterMutation ==
    Mutated => load_blacklists(blacklist_file) = blacklists

\* C16: after add of a non-empty address to a valid category, the category
\* holds exactly one member for that address, and adding the address again,
\* in any letter case, leaves the set as it is
C16_AddIdempotentOneMember ==
    (Mutated /\ store_call.op = "add" /\ Truthy(store_call.address)) =>
        LET c == store_call.blacklist_type
            a == store_call.address.s
        IN /\ Cardinality(Spellings(blacklists[c], a)) = 1
           /\ \A v \in CaseVariants(a) \cup {a} :
                add_to_blacklist(blacklists, blacklist_file, c, Str(v),
                                 "ok").blacklists = blacklists

\* C17: add is a no-op (no set changes, nothing persisted, nothing raised)
\* when the category is unknown or the address is empty or blank; otherwise
\* the lower-case address is a member of that category afterwards and the
\* other three sets are unchanged
C17_AddNoOpOrMember ==
    (store_call.op = "add") =>
        LET c == store_call.blacklist_type
            a == store_call.address.s
        IN IF c \notin Categories \/ Blank(a)
           THEN /\ blacklists = store_call.before
                /\ blacklist_file = store_call.file_before
                /\ ~store_call.raised
           ELSE /\ lower(a) \in blacklists[c]
                /\ \A d \in Categories \ {c} :
                     blacklists[d] = store_call.before[d]

\* C18: remove on a valid category never raises; of an address that is not a
\* member it leaves all four sets as they were, of a member it deletes that
\* address, whatever the letter case of its spelling, and nothing else; the
\* store is persisted either way
C18_RemoveDeletesOnlyThatAddress ==
    (store_call.op = "remove" /\ store_call.blacklist_type \in Categories) =>
        LET c == store_call.blacklist_type
            a == store_call.address.s
        IN /\ ~store_call.raised
           /\ blacklists =
                [store_call.before EXCEPT ![c] = @ \ Spellings(@, a)]
           /\ store_call.io = "ok" => blacklist_file = YamlFile(blacklists)

\* C19: load never raises and yields exactly the four categories: all empty
\* when the file is missing, unreadable or corrupt, and from a valid file a
\* category whose key is missing is empty while those present keep their
\* addresses
C19_LoadYieldsFourCategories ==
    (store_call.op = "load") =>
        /\ ~store_call.raised
        /\ DOMAIN blacklists = {"tokens", "developers", "contracts", "domains"}
        /\ blacklist_file.kind \in {"missing", "corrupt"} =>
             \A c \in DOMAIN blacklists : blacklists[c] = {}
        /\ blacklist_file.kind = "yaml" =>
             \A c \in DOMAIN blacklists :
                blacklists[c] = IF c \in DOMAIN blacklist_file.data
                                THEN blacklist_file.data[c]
                                ELSE {}

\* a valid file that lacks the tokens key was loaded and the developers it
\* lists are in the store
C19_Witness ==
    /\ store_call.op = "load"
    /\ blacklist_file.kind = "yaml"
    /\ "tokens" \notin DOMAIN blacklist_file.data
    /\ "developers" \in DOMAIN blacklist_file.data
    /\ blacklists["developers"] # {}
    /\ blacklists["tokens"] = {}

\* C20: an unknown category never raises and never changes state: add, remove
\* and clear leave the four sets and the file unchanged and create no
\* category, contains returns false and get returns an empty set
C20_UnknownCategoryNoOp ==
    (/\ store_call.op \in {"add", "remove", "clear", "contains", "get"}
     /\ store_call.blacklist_type \notin Categories) =>
        /\ ~store_call.raised
        /\ blacklists = store_call.before
        /\ DOMAIN blacklists = Categories
        /\ blacklist_file = store_call.file_before
        /\ store_call.op = "contains" => ~store_call.found
        /\ store_call.op = "get" => store_call.got = {}

\* clear of a category the store does not have has returned, on a store that
\* holds addresses
C20_Witness ==
    /\ store_call.op = "clear"
    /\ store_call.blacklist_type \notin Categories
    /\ store_call.io = "ok"
    /\ blacklists["tokens"] # {}

-----------------------------------------------------------------------------
(* Properties of the shared store (SpecConc) *)

\* C14: the modify-and-persist sequences of two concurrent writers are
\* serialized: when both have completed the file holds the blacklist with
\* both mutations, and no contains or get runs while a writer is between its
\* change of the set and the end of its save
C14_WritersSerialized ==
    /\ (\A t \in Threads : writers[t].pc = "done") =>
          load_blacklists(blacklist_file) = blacklists
    /\ store_call.op \in {"contains", "get"} =>
          \A t \in Threads : writers[t].pc \in {"start", "done"}

\* C15: whatever a reader of the file loads, at any moment, is the blacklist
\* before or after one of the mutations, never a partially written or emptied
\* one
C15_ExternalReaderSeesWholeBlacklist ==
    observed \subseteq versions

-----------------------------------------------------------------------------
(* Properties of the classifier and of the pipeline's use of it (Spec) *)

\* C21: check_contract never lets a lookup fault reach its caller: when the
\* lookup fails it returns an analysis carrying the queried address, the risk
\* level HIGH_RISK, is_bundled, is_honeypot and is_verified false and no
\* issues; when it succeeds it returns the backend's verdict for that address
C21_ClassifierFailsClosed ==
    (last.variant = "hard" /\ Called("check_contract")) =>
        LET analysis == last.contract_analysis
            response == last.response
        IN /\ ~last.raised
           /\ analysis.token_address = AddressOf
           /\ IF response.fault \/ response.risk_level \notin ContractRisk
              THEN /\ analysis.risk_level = "HIGH_RISK"
                   /\ ~analysis.is_bundled
                   /\ ~analysis.is_honeypot
                   /\ ~analysis.is_verified
                   /\ analysis.potential_issues = <<>>
              ELSE /\ analysis.risk_level = response.risk_level
                   /\ analysis.is_bundled = response.is_bundled
                   /\ analysis.is_honeypot = response.is_honeypot
                   /\ analysis.is_verified = response.is_verified
                   /\ analysis.potential_issues = response.potential_issues

\* the lookup failed for a token that reached the classifier, and the call
\* returned the rejection value
C21_Witness ==
    /\ last.variant = "hard"
    /\ Called("check_contract")
    /\ last.response.fault
    /\ last.contract_analysis.risk_level = "HIGH_RISK"
    /\ AddressOf = Str(<<"b", "A">>)
    /\ Rejected

-----------------------------------------------------------------------------
(* Properties of APIManager (SpecApi) *)

\* the calls of validate_token made so far for a backend
ValidatedOf(name) ==
    {i \in 1..Len(api_call.validated) : api_call.validated[i].name = name}

\* C22: analyze_token returns a mapping with exactly one entry per configured
\* backend, the backend's result when its validate_token succeeded and an
\* error entry when it failed; a failure neither reaches the caller nor keeps
\* the backends after it from being queried
C22_OneEntryPerBackend ==
    /\ api_call.pc # "raised"
    /\ api_call.pc = "returned" =>
         /\ DOMAIN api_call.results = apis
         /\ \A name \in apis :
              /\ Cardinality(ValidatedOf(name)) = 1
              /\ \A i \in ValidatedOf(name) :
                   LET outcome == api_call.validated[i].outcome
                       entry == api_call.results[name]
                   IN IF outcome = "fault"
                      THEN DOMAIN entry.m = {"error"}
                      ELSE entry.m = [k \in {"result"} |-> Str(<<outcome>>)]

\* with two backends configured the first one failed, the second was queried
\* and answered, and the mapping was returned
C22_Witness ==
    /\ api_call.pc = "returned"
    /\ Len(api_call.validated) = 2
    /\ api_call.validated[1].outcome = "fault"
    /\ api_call.validated[2].outcome = "verdict"
    /\ "error" \in DOMAIN api_call.results[api_call.validated[1].name].m
    /\ "result" \in DOMAIN api_call.results[api_call.validated[2].name].m

\* C23: analyze_token on a default-constructed APIManager returns a dict
\* with at least one per-backend entry
C23_DefaultManagerHasAnEntry ==
    (api_call.pc = "returned" /\ apis = initialize_apis) =>
        DOMAIN api_call.results # {}

-----------------------------------------------------------------------------
(* Properties of the retrying request (SpecRetry) *)

\* C24: for any configured retry count the request makes at most max_retries
\* attempts, a further attempt only after a failed one, returns the first
\* successful response with no attempt after it, and after max_retries
\* failures in a row raises the most recent failure: it ends with a
\* successful response or with that failure
C24_RetryOutcome ==
    LET made == request.attempts
    IN /\ Len(made) <= request.max_retries
       /\ \A i \in 1..(Len(made) - 1) : ~made[i].ok
       /\ request.pc = "loop" => \A i \in 1..Len(made) : ~made[i].ok
       /\ request.pc = "returned" =>
            /\ Len(made) >= 1
            /\ made[Len(made)].ok
            /\ request.returned = made[Len(made)].value
       /\ request.pc = "raised" =>
            /\ Len(made) = request.max_retries
            /\ \A i \in 1..Len(made) : ~made[i].ok
            /\ request.raised = made[Len(made)].value


\* C25: a hard-cutoff call changes the blacklist only when it rejects for a
\* security concern, and only by adding: a volume-rejected or accepted token,
\* and one rejected for a fault caught before classification, leave the four
\* sets as they were, contracts and domains never change, and no set loses a
\* member
C25_BlacklistGrowsOnlyOnConcern ==
    last.variant = "hard" =>
        /\ DOMAIN blacklists = DOMAIN last.before
        /\ \A c \in DOMAIN last.before : last.before[c] \subseteq blacklists[c]
        /\ blacklists["contracts"] = last.before["contracts"]
        /\ blacklists["domains"] = last.before["domains"]
        /\ blacklists # last.before => (SecurityConcern /\ Rejected)
        /\ (Accepted \/ ~Called("check_contract")) => blacklists = last.before

\* a security-concern rejection added the token to a blacklist that already
\* had a member, which is still there
C25_Witness ==
    /\ SecurityConcern
    /\ Rejected
    /\ last.before["tokens"] # {}
    /\ blacklists["tokens"] # last.before["tokens"]
    /\ last.before["tokens"] \subseteq blacklists["tokens"]


\* two lookup answers that agree on what the verdict is taken from, the risk
\* level and is_bundled (or both fail), and may differ in is_honeypot,
\* is_verified and potential_issues
DifferOnlyInOtherFlags(r1, r2) ==
    /\ r1.fault = r2.fault
    /\ r1.risk_level = r2.risk_level
    /\ r1.is_bundled = r2.is_bundled

\* C26: the hard-cutoff verdict depends only on the volume score, is_bundled
\* and the risk level: a second run on the same token and blacklist whose
\* classification differs only in is_honeypot, is_verified or
\* potential_issues gives the same verdict, the same output record and the
\* same blacklist
C26_VerdictIgnoresOtherFlags ==
    last.variant = "hard" =>
        \A other \in Responses :
            DifferOnlyInOtherFlags(last.response, other) =>
                LET second == perform_comprehensive_analysis(
                                  last.token_data, other, last.before,
                                  MissingFile, <<"ok", "ok">>)
                IN /\ second.result = last.result
                   /\ second.raised = last.raised
                   /\ second.blacklists = blacklists

\* a LOW_RISK classification flagged is_honeypot was accepted, and one that
\* differs from it in the other flags only exists
C26_Witness ==
    /\ last.variant = "hard"
    /\ last.response.is_honeypot
    /\ last.response.risk_level = "LOW_RISK"
    /\ Accepted
    /\ \E other \in Responses :
         /\ DifferOnlyInOtherFlags(last.response, other)
         /\ ~other.is_honeypot
         /\ other.potential_issues # <<>>

====
